---- MODULE Spec2Model ----
(***************************************************************************)
(* PowerStats AIDL service (powerstats/PowerStatsAidl.cpp).                *)
(*                                                                         *)
(* The service keeps a registry of power entities (mPowerEntityInfos and,  *)
(* index for index, mStateResidencyDataProviders), an optional rail energy *)
(* provider, and the function-local statics of the two dump routines.      *)
(* Every binder handler runs to completion on the calling thread, so each  *)
(* handler is one action; `reply` holds what the handler handed back to    *)
(* its caller until the caller has taken it (Return).                      *)
(*                                                                         *)
(* The providers are external.  A state residency provider is modelled by  *)
(* its getInfo() answer and by a fill pattern chosen per top-level call;   *)
(* the hardware counters it reads are functions of the boot clock `now`.   *)
(***************************************************************************)
EXTENDS Integers, Sequences, FiniteSets, TLC

\* ---------------------------------------------------------------- bounds
MaxEntities == 3      \* registrations stop once the table would exceed this
MaxReqLen   == 3      \* longest in_powerEntityIds list tried
MaxTime     == 3      \* boot clock ticks explored
MaxFilter   == 2      \* longest in_railIndices list tried
TicksPerMs  == 2      \* resolution of the modelled boot clock

\* ----------------------------------------------------------- status codes
STATUS_OK                 == "STATUS_OK"
STATUS_BAD_VALUE          == "STATUS_BAD_VALUE"
STATUS_FAILED_TRANSACTION == "STATUS_FAILED_TRANSACTION"

\* ------------------------------------------------------- external providers
\* State residency providers handed to addStateResidencyDataProvider.  p1 owns
\* two entities, p2 owns one whose name p1 also uses, p3 owns none.
StateProviders == {"p1", "p2", "p3"}

\* IStateResidencyDataProvider::getInfo(): entity names in iteration order.
getInfo(p) ==
    CASE p = "p1" -> <<"A", "B">>
      [] p = "p2" -> <<"A">>
      [] OTHER    -> <<>>

\* Every entity has the same two states.
EntityStates == <<0, 1>>

\* How a provider behaves during one top-level call.
FillPatterns == {"all", "none", "first", "state0"}
OwningProviders == {p \in StateProviders : getInfo(p) # <<>>}
Behaviours      == [OwningProviders -> FillPatterns]

\* Counter offsets that tell the providers and their entities apart.
ProviderBase(p) == CASE p = "p1" -> 10 [] p = "p2" -> 20 [] OTHER -> 30
NameBase(name)  == IF name = "A" THEN 0 ELSE 5

\* One PowerEntityStateResidencyData as provider p reads it at clock t.
Reading(p, name, s, t) ==
    [powerEntityStateId   |-> s,
     totalTimeInStateMs   |-> ProviderBase(p) + NameBase(name) + (s + 1) * t,
     totalStateEntryCount |-> ProviderBase(p) + t,
     lastEntryTimestampMs |-> IF t = 0 THEN 0 ELSE ProviderBase(p) + 2 * t - s]

SeqToSet(s) == {s[i] : i \in 1..Len(s)}

RECURSIVE Concat(_)
Concat(ss) == IF ss = <<>> THEN <<>> ELSE Head(ss) \o Concat(Tail(ss))

\* The names provider p fills under pattern pat.
FilledNames(p, pat) ==
    CASE pat = "none"  -> {}
      [] pat = "first" -> IF getInfo(p) = <<>> THEN {} ELSE {getInfo(p)[1]}
      [] OTHER         -> SeqToSet(getInfo(p))

FilledStates(pat) == IF pat = "state0" THEN <<0>> ELSE EntityStates

\* IStateResidencyDataProvider::getResults(&map): inserts the provider's data
\* under each name it fills; a name already in the map keeps its data.
getResults(p, pat, t, map) ==
    LET new == FilledNames(p, pat) \ DOMAIN map
    IN  [n \in DOMAIN map \cup new |->
            IF n \in DOMAIN map
            THEN map[n]
            ELSE [k \in 1..Len(FilledStates(pat)) |->
                     Reading(p, n, FilledStates(pat)[k], t)]]

\* ------------------------------------------------------------------- state
VARIABLES
    mPowerEntityInfos,             \* std::vector<PowerEntityInfo>
    mStateResidencyDataProviders,  \* provider owning entity i, index for index
    mRailEnergyDataProvider,       \* unique_ptr<IRailEnergyDataProvider>
    now,                           \* boot_clock, in ticks
    sr_init, prevResults, sr_prevTime,     \* statics of dumpStateResidency
    re_init, prevEnergyData, re_prevTime,  \* statics of dumpRailEnergy
    deltaDumps,                    \* history: dumps asked with ["delta"]: 0, 1, 2 = more
    reply                          \* what the last handler returned

registry == <<mPowerEntityInfos, mStateResidencyDataProviders>>
statics  == <<sr_init, prevResults, sr_prevTime, re_init, prevEnergyData, re_prevTime>>
vars     == <<mPowerEntityInfos, mStateResidencyDataProviders, mRailEnergyDataProvider,
              now, sr_init, prevResults, sr_prevTime, re_init, prevEnergyData,
              re_prevTime, deltaDumps, reply>>

NoProvider == "nullptr"
NoReply    == [op |-> "none"]
Idle       == reply.op = "none"

\* --------------------------------------------------------------- registry
\* int32_t id = mPowerEntityInfos.size();
FirstIdSkipsOne(infos) == Len(infos) + 1
FirstId(infos) == Len(infos)

\* The loop of addStateResidencyDataProvider: one PowerEntityInfo per entity
\* of getInfo(), with .powerEntityId = id++.
NewInfos(infos, p) ==
    [k \in 1..Len(getInfo(p)) |->
        [powerEntityId   |-> FirstId(infos) + (k - 1),
         powerEntityName |-> getInfo(p)[k],
         states          |-> EntityStates]]

NewOwners(p) == [k \in 1..Len(getInfo(p)) |-> p]

addStateResidencyDataProvider(p) ==
    /\ Idle
    /\ Len(mPowerEntityInfos) + Len(getInfo(p)) <= MaxEntities
    /\ mPowerEntityInfos' = mPowerEntityInfos \o NewInfos(mPowerEntityInfos, p)
    /\ mStateResidencyDataProviders' = mStateResidencyDataProviders \o NewOwners(p)
    /\ UNCHANGED <<mRailEnergyDataProvider, now, statics, deltaDumps, reply>>

getPowerEntityInfo ==
    /\ Idle
    /\ reply' = [op |-> "getPowerEntityInfo", ret |-> mPowerEntityInfos,
                 status |-> STATUS_OK]
    /\ UNCHANGED <<registry, mRailEnergyDataProvider, now, statics, deltaDumps>>

\* The caller takes the reply; the handler's out-parameter goes out of scope.
Return ==
    /\ ~Idle
    /\ reply' = NoReply
    /\ UNCHANGED <<registry, mRailEnergyDataProvider, now, statics, deltaDumps>>

\* ------------------------------------------- getPowerEntityStateResidencyData
\* std::iota over a vector of mPowerEntityInfos.size() elements, from 0.
IotaFromOne(n) == [i \in 1..n |-> i]
Iota(n) == [i \in 1..n |-> i - 1]

\* if (id < 0 || id >= mPowerEntityInfos.size())
IsInvalidId(id) == id < 0 \/ id >= Len(mPowerEntityInfos)

\* if (stateResidencies.find(powerEntityName) == stateResidencies.end())
AlwaysFetch(map, name) == TRUE
NeedsFetch(map, name) == name \notin DOMAIN map

\* err = (err == STATUS_OK) ? STATUS_FAILED_TRANSACTION : err;
FailedAlways(err) == STATUS_FAILED_TRANSACTION
FailedUnlessSet(err) == IF err = STATUS_OK THEN STATUS_FAILED_TRANSACTION ELSE err

\* The locals of the handler before the loop; `log` is the history of the
\* iterations (one entry per requested id).
LoopStart == [err |-> STATUS_OK, stateResidencies |-> <<>>, ret |-> <<>>, log |-> <<>>]

\* One iteration of the for loop over in_powerEntityIds.
LoopBody(st, id, beh, t) ==
    IF IsInvalidId(id)
    THEN [st EXCEPT !.err = STATUS_BAD_VALUE,
                    !.log = Append(@, [id |-> id, valid |-> FALSE, fetched |-> FALSE,
                                       found |-> FALSE, err |-> STATUS_BAD_VALUE])]
    ELSE LET powerEntityName == mPowerEntityInfos[id + 1].powerEntityName
             owner == mStateResidencyDataProviders[id + 1]
             fetch == NeedsFetch(st.stateResidencies, powerEntityName)
             map   == IF fetch
                      THEN getResults(owner, beh[owner], t, st.stateResidencies)
                      ELSE st.stateResidencies
             found == powerEntityName \in DOMAIN map
             err   == IF found THEN st.err ELSE FailedUnlessSet(st.err)
         IN  [err |-> err,
              stateResidencies |-> map,
              ret |-> IF found
                      THEN Append(st.ret, [powerEntityId |-> id,
                                           stateResidencyData |-> map[powerEntityName]])
                      ELSE st.ret,
              log |-> Append(st.log, [id |-> id, valid |-> TRUE, fetched |-> fetch,
                                      found |-> found, err |-> err])]

RECURSIVE LoopStopsAtInvalid(_, _, _, _)
LoopStopsAtInvalid(st, ids, beh, t) ==
    IF ids = <<>> THEN st
    ELSE IF IsInvalidId(Head(ids)) THEN LoopBody(st, Head(ids), beh, t)
    ELSE LoopStopsAtInvalid(LoopBody(st, Head(ids), beh, t), Tail(ids), beh, t)

\* for (const int32_t id : in_powerEntityIds) { ... }
RECURSIVE Loop(_, _, _, _)
Loop(st, ids, beh, t) ==
    IF ids = <<>> THEN st
    ELSE Loop(LoopBody(st, Head(ids), beh, t), Tail(ids), beh, t)

\* The whole handler: an empty request on a non-empty registry calls the
\* handler again with 0..N-1; `recursed` records that it did.
ResidencyData(ids, beh, t) ==
    IF ids = <<>> /\ mPowerEntityInfos # <<>>
    THEN [recursed |-> TRUE,
          out |-> Loop(LoopStart, Iota(Len(mPowerEntityInfos)), beh, t)]
    ELSE [recursed |-> FALSE, out |-> Loop(LoopStart, ids, beh, t)]

\* Request lists: ids from -1 (negative) up to MaxEntities (never registered).
RequestIds == -1..MaxEntities
Requests   == UNION {[1..n -> RequestIds] : n \in 0..MaxReqLen}

getPowerEntityStateResidencyData(ids, beh) ==
    /\ Idle
    /\ LET r == ResidencyData(ids, beh, now)
       IN  reply' = [op |-> "getPowerEntityStateResidencyData",
                     req |-> ids, beh |-> beh, recursed |-> r.recursed,
                     ret |-> r.out.ret, status |-> r.out.err, log |-> r.out.log]
    /\ UNCHANGED <<registry, mRailEnergyDataProvider, now, statics, deltaDumps>>

\* ------------------------------------------------- registry and query: spec
Init ==
    /\ mPowerEntityInfos = <<>>
    /\ mStateResidencyDataProviders = <<>>
    /\ mRailEnergyDataProvider = NoProvider
    /\ now = 0
    /\ sr_init = FALSE /\ prevResults = <<>> /\ sr_prevTime = 0
    /\ re_init = FALSE /\ prevEnergyData = <<>> /\ re_prevTime = 0
    /\ deltaDumps = 0
    /\ reply = NoReply

NextQuery ==
    \/ \E p \in StateProviders : addStateResidencyDataProvider(p)
    \/ getPowerEntityInfo
    \/ Idle /\ \E ids \in Requests, beh \in Behaviours :
                   getPowerEntityStateResidencyData(ids, beh)
    \/ Return

SpecQuery == Init /\ [][NextQuery]_vars

\* ------------------------------------------------- helpers of the formulas
IsQueryReply == reply.op = "getPowerEntityStateResidencyData"
EntityCount  == Len(mPowerEntityInfos)
InRange(id)  == 0 <= id /\ id < EntityCount
NameOf(id)   == mPowerEntityInfos[id + 1].powerEntityName
OwnerOf(id)  == mStateResidencyDataProviders[id + 1]

\* Registration sequences that can have built a table of n entities.
RegistrationsUpTo(n) ==
    UNION {[1..k -> OwningProviders] : k \in 0..n}

\* C1: the entity table getPowerEntityInfo returns has N entries, entry i has
\* powerEntityId i (so the ids are exactly 0..N-1, none skipped, none twice),
\* and the entries are the providers' entities in the order the providers
\* were registered.
C1_DenseIds ==
    reply.op = "getPowerEntityInfo" =>
        /\ reply.status = STATUS_OK
        /\ reply.ret = mPowerEntityInfos
        /\ Len(reply.ret) = Len(mStateResidencyDataProviders)
        /\ \A i \in 1..Len(reply.ret) : reply.ret[i].powerEntityId = i - 1
        /\ {reply.ret[i].powerEntityId : i \in 1..Len(reply.ret)} = 0..(Len(reply.ret) - 1)
        /\ \E regs \in RegistrationsUpTo(Len(reply.ret)) :
              /\ [i \in 1..Len(reply.ret) |-> reply.ret[i].powerEntityName]
                    = Concat([k \in 1..Len(regs) |-> getInfo(regs[k])])
              /\ mStateResidencyDataProviders
                    = Concat([k \in 1..Len(regs) |-> NewOwners(regs[k])])

C1_Witness ==
    /\ reply.op = "getPowerEntityInfo"
    /\ Len(reply.ret) = 3
    /\ mStateResidencyDataProviders = <<"p2", "p1", "p1">>

\* C2: an empty request on a registry of N >= 1 entities returns the result
\* list and status of the request [0, 1, ..., N-1] under the same provider
\* behaviour; on an empty registry it returns an empty list with STATUS_OK
\* without calling itself again.
C2_EmptyMeansAll ==
    (IsQueryReply /\ reply.req = <<>>) =>
        IF EntityCount >= 1
        THEN LET full == ResidencyData([i \in 1..EntityCount |-> i - 1], reply.beh, now)
             IN  /\ reply.ret = full.out.ret
                 /\ reply.status = full.out.err
                 /\ Len(reply.log) = EntityCount
        ELSE reply.ret = <<>> /\ reply.status = STATUS_OK /\ ~reply.recursed

C2_Witness ==
    /\ IsQueryReply /\ reply.req = <<>> /\ reply.recursed
    /\ EntityCount = 3
    /\ Len(reply.ret) = 2
    /\ reply.status = STATUS_FAILED_TRANSACTION

\* Positions of the request whose id is in range and for which data was in
\* the scratch map once the fetch step was over.
Answered(r) == {i \in 1..Len(r.req) : InRange(r.req[i]) /\ r.log[i].found}

RECURSIVE IdsAt(_, _, _)
IdsAt(req, keep, i) ==
    IF i > Len(req) THEN <<>>
    ELSE (IF i \in keep THEN <<req[i]>> ELSE <<>>) \o IdsAt(req, keep, i + 1)

\* The log's `found` agrees with what the providers supplied in this call.
FoundMatchesProviders(r) ==
    \A i \in 1..Len(r.req) : InRange(r.req[i]) =>
        /\ NameOf(r.req[i]) \in FilledNames(OwnerOf(r.req[i]), r.beh[OwnerOf(r.req[i])])
              => r.log[i].found
        /\ (\A j \in 1..i : InRange(r.req[j]) =>
               NameOf(r.req[i]) \notin FilledNames(OwnerOf(r.req[j]), r.beh[OwnerOf(r.req[j])]))
              => ~r.log[i].found

\* C3: a request that holds an out-of-range id (id < 0 or id >= entity count)
\* anywhere in the list is processed to its end: the status is
\* STATUS_BAD_VALUE, and the result list holds, in request order, one result
\* for every in-range requested id that had data, and none for another id.
C3_InvalidIdsAreSkipped ==
    (IsQueryReply /\ \E i \in 1..Len(reply.req) : ~InRange(reply.req[i])) =>
        /\ reply.status = STATUS_BAD_VALUE
        /\ Len(reply.log) = Len(reply.req)
        /\ FoundMatchesProviders(reply)
        /\ [k \in 1..Len(reply.ret) |-> reply.ret[k].powerEntityId]
              = IdsAt(reply.req, Answered(reply), 1)
        /\ \A k \in 1..Len(reply.ret) : InRange(reply.ret[k].powerEntityId)

C3_Witness ==
    /\ IsQueryReply
    /\ Len(reply.req) = 3
    /\ ~InRange(reply.req[1]) /\ InRange(reply.req[2]) /\ InRange(reply.req[3])
    /\ Len(reply.ret) = 2
    /\ reply.status = STATUS_BAD_VALUE

\* C4: the status depends only on which error kinds occurred: STATUS_BAD_VALUE
\* if some requested id was out of range, else STATUS_FAILED_TRANSACTION if
\* some in-range requested id had no data after the fetch, else STATUS_OK.
\* Iteration by iteration: an out-of-range id always leaves STATUS_BAD_VALUE,
\* and STATUS_BAD_VALUE once recorded stays.
C4_ErrorPriority ==
    IsQueryReply =>
        LET req == IF reply.recursed
                   THEN [i \in 1..EntityCount |-> i - 1] ELSE reply.req
            r   == [reply EXCEPT !.req = req]
            n   == Len(req)
        IN  /\ Len(reply.log) = n
            /\ FoundMatchesProviders(r)
            /\ reply.status =
                  IF \E i \in 1..n : ~InRange(req[i]) THEN STATUS_BAD_VALUE
                  ELSE IF \E i \in 1..n : ~reply.log[i].found
                       THEN STATUS_FAILED_TRANSACTION
                       ELSE STATUS_OK
            /\ \A i \in 1..n :
                  /\ ~InRange(req[i]) => reply.log[i].err = STATUS_BAD_VALUE
                  /\ (i > 1 /\ reply.log[i - 1].err = STATUS_BAD_VALUE)
                        => reply.log[i].err = STATUS_BAD_VALUE
            /\ n > 0 => reply.status = reply.log[n].err

C4_Witness ==
    /\ IsQueryReply
    /\ Len(reply.req) = 3
    /\ reply.log[1].err = STATUS_FAILED_TRANSACTION
    /\ reply.log[2].err = STATUS_BAD_VALUE
    /\ InRange(reply.req[3]) /\ ~reply.log[3].found
    /\ reply.status = STATUS_BAD_VALUE

\* Positions of the log at which getResults was invoked for entity name n.
FetchesFor(r, n) ==
    {i \in 1..Len(r.log) : r.log[i].fetched /\ NameOf(r.log[i].id) = n}

EntityNames == {mPowerEntityInfos[i].powerEntityName : i \in 1..EntityCount}

\* C9 as stated: during one top-level call getResults is invoked at most once
\* per distinct entity name, whatever the request and the providers do.
C9_AtMostOncePerName ==
    IsQueryReply => \A n \in EntityNames : Cardinality(FetchesFor(reply, n)) <= 1

\* C9 as amended: once the scratch map holds data under an entity name,
\* getResults is not invoked for that name again during the call; every
\* requested in-range id whose name is left without data invoked getResults.
C9_NoFetchOnceFound ==
    IsQueryReply =>
        /\ \A i, j \in 1..Len(reply.log) :
              (i < j /\ reply.log[i].valid /\ reply.log[j].valid
                 /\ reply.log[i].found
                 /\ NameOf(reply.log[i].id) = NameOf(reply.log[j].id))
              => ~reply.log[j].fetched
        /\ \A j \in 1..Len(reply.log) :
              (reply.log[j].valid /\ ~reply.log[j].found) => reply.log[j].fetched

C9_Witness ==
    /\ IsQueryReply
    /\ Len(reply.req) = 3
    /\ reply.req[1] = reply.req[2] /\ reply.req[2] = reply.req[3]
    /\ InRange(reply.req[1])
    /\ Cardinality(FetchesFor(reply, NameOf(reply.req[1]))) = 1
    /\ Len(reply.ret) = 3

\* C10: the data of every result was produced by the provider registered as
\* the owner of the result's entity id.
C10_DataComesFromOwner ==
    IsQueryReply =>
        \A k \in 1..Len(reply.ret) :
            LET id    == reply.ret[k].powerEntityId
                owner == OwnerOf(id)
                own   == getResults(owner, reply.beh[owner], now, <<>>)
            IN  /\ NameOf(id) \in DOMAIN own
                /\ reply.ret[k].stateResidencyData = own[NameOf(id)]

\* ------------------------------------------------------ rail energy provider
RailProviders  == {"r1", "r2"}
RailBehaviours == {"ok", "partial", "error"}

\* The rails of a provider, by railIndex.
RailsOf(rp) == IF rp = "r1" THEN <<0, 1>> ELSE <<0>>

\* Cumulative energy of a rail, in microwatt-seconds, at clock t.
EnergyUWs(rp, rail, t) == (IF rp = "r1" THEN 1000 ELSE 2000) + 500 * (rail + 1) * t

\* IRailEnergyDataProvider::getRailInfo.
RailGetRailInfo(rp, rb) ==
    IF rb = "error"
    THEN [ret |-> <<>>, status |-> STATUS_FAILED_TRANSACTION]
    ELSE [ret |-> [k \in 1..Len(RailsOf(rp)) |->
                      [railIndex |-> RailsOf(rp)[k], subsysName |-> rp, railName |-> "rail"]],
          status |-> STATUS_OK]

\* IRailEnergyDataProvider::getEnergyData: an empty filter asks for all
\* rails; "partial" reads rail 0 only; an unknown index is a bad value.
RailGetEnergyData(rp, indices, rb, t) ==
    LET wanted == IF indices = <<>> THEN RailsOf(rp) ELSE indices
        rails  == IF rb = "partial" THEN SelectSeq(wanted, LAMBDA r : r = 0) ELSE wanted
    IN  IF rb = "error"
        THEN [ret |-> <<>>, status |-> STATUS_FAILED_TRANSACTION]
        ELSE IF SeqToSet(wanted) \subseteq SeqToSet(RailsOf(rp))
        THEN [ret |-> [k \in 1..Len(rails) |->
                          [railIndex |-> rails[k],
                           energyUWs |-> EnergyUWs(rp, rails[k], t)]],
              status |-> STATUS_OK]
        ELSE [ret |-> <<>>, status |-> STATUS_BAD_VALUE]

\* --------------------------------------------- setRailDataProvider, facade
setRailDataProvider(rp) ==
    /\ Idle
    /\ mRailEnergyDataProvider' = rp
    /\ UNCHANGED <<registry, now, statics, deltaDumps, reply>>

\* if (!mRailEnergyDataProvider) return ndk::ScopedAStatus::ok();
EmptyError == [ret |-> <<>>, status |-> STATUS_FAILED_TRANSACTION]
EmptyOk == [ret |-> <<>>, status |-> STATUS_OK]

\* PowerStats::getEnergyData, as a function of its inputs.
EnergyData(indices, rb, t) ==
    IF mRailEnergyDataProvider = NoProvider
    THEN EmptyOk
    ELSE RailGetEnergyData(mRailEnergyDataProvider, indices, rb, t)

\* PowerStats::getRailInfo, as a function of its inputs.
RailInfo(rb) ==
    IF mRailEnergyDataProvider = NoProvider
    THEN EmptyOk
    ELSE RailGetRailInfo(mRailEnergyDataProvider, rb)

RailIndices == 0..2
RailFilters == UNION {[1..n -> RailIndices] : n \in 0..MaxFilter}

getEnergyData(indices, rb) ==
    /\ Idle
    /\ LET r == EnergyData(indices, rb, now)
       IN  reply' = [op |-> "getEnergyData", req |-> indices, rb |-> rb,
                     ret |-> r.ret, status |-> r.status]
    /\ UNCHANGED <<registry, mRailEnergyDataProvider, now, statics, deltaDumps>>

getRailInfo(rb) ==
    /\ Idle
    /\ LET r == RailInfo(rb)
       IN  reply' = [op |-> "getRailInfo", rb |-> rb, ret |-> r.ret, status |-> r.status]
    /\ UNCHANGED <<registry, mRailEnergyDataProvider, now, statics, deltaDumps>>

\* The boot clock advances (and with it the hardware counters).
Tick ==
    /\ Idle
    /\ now < MaxTime
    /\ now' = now + 1
    /\ UNCHANGED <<registry, mRailEnergyDataProvider, statics, deltaDumps, reply>>

NextEnergy ==
    \/ \E rp \in RailProviders : setRailDataProvider(rp)
    \/ Idle /\ \E indices \in RailFilters, rb \in RailBehaviours : getEnergyData(indices, rb)
    \/ \E rb \in RailBehaviours : getRailInfo(rb)
    \/ Tick
    \/ Return

SpecEnergy == Init /\ [][NextEnergy]_vars

\* C5: while no energy provider is registered, getEnergyData (whatever the
\* rail filter) and getRailInfo return an empty list with STATUS_OK; with a
\* provider registered they return the provider's list and status as they are.
C5_NoProviderIsEmptyOk ==
    /\ reply.op = "getEnergyData" =>
          IF mRailEnergyDataProvider = NoProvider
          THEN reply.ret = <<>> /\ reply.status = STATUS_OK
          ELSE LET r == RailGetEnergyData(mRailEnergyDataProvider, reply.req, reply.rb, now)
               IN  reply.ret = r.ret /\ reply.status = r.status
    /\ reply.op = "getRailInfo" =>
          IF mRailEnergyDataProvider = NoProvider
          THEN reply.ret = <<>> /\ reply.status = STATUS_OK
          ELSE LET r == RailGetRailInfo(mRailEnergyDataProvider, reply.rb)
               IN  reply.ret = r.ret /\ reply.status = r.status

C5_Witness ==
    /\ reply.op = "getEnergyData"
    /\ mRailEnergyDataProvider = NoProvider
    /\ reply.req = <<1, 0>>
    /\ reply.rb = "error"
    /\ now > 0

\* --------------------------------------------------------------------- dump
\* bool delta = (numArgs == 1) && (std::string(args[0]) == "delta");
AnySingleArg(args) == Len(args) = 1
IsDelta(args) == Len(args) = 1 /\ args[1] = "delta"

\* static boot_clock::time_point prevTime = curTime;  (first delta pass only)
BootTime(initialised, prevTime, curTime) == IF initialised THEN prevTime ELSE 0
PrevTime(initialised, prevTime, curTime) == IF initialised THEN prevTime ELSE curTime

\* duration_cast<milliseconds>(curTime - prevTime).count()
ElapsedMs(curTime, prevTime) == (curTime - prevTime) \div TicksPerMs

\* prevResults = results;  prevEnergyData = energyData;
KeepFirstSnapshot(old, cur) == IF old = <<>> THEN cur ELSE old
NextSnapshot(old, cur) == cur

\* Index of the first element of seq that satisfies Test.
FirstIndex(seq, Test(_)) ==
    CHOOSE i \in 1..Len(seq) :
        Test(seq[i]) /\ \A j \in 1..(i - 1) : ~Test(seq[j])

\* prevResultsMap: entity id -> (state id -> data); emplace keeps the first.
PrevResultsMap(prev) ==
    [e \in {prev[i].powerEntityId : i \in 1..Len(prev)} |->
        LET datas == Concat([i \in 1..Len(prev) |->
                        IF prev[i].powerEntityId = e
                        THEN prev[i].stateResidencyData ELSE <<>>])
        IN  [st \in {datas[j].powerEntityStateId : j \in 1..Len(datas)} |->
                datas[FirstIndex(datas, LAMBDA d : d.powerEntityStateId = st)]]]

\* getEntityStateMaps: entityNames.at(id); emplace keeps the first entry.
EntityNameAt(id) ==
    mPowerEntityInfos[FirstIndex(mPowerEntityInfos,
                                 LAMBDA i : i.powerEntityId = id)].powerEntityName

\* One line of the delta table of dumpStateResidency.
StateRowDelta(result, stateResidency, prevMap) ==
    LET e    == result.powerEntityId
        st   == stateResidency.powerEntityStateId
        have == e \in DOMAIN prevMap /\ st \in DOMAIN prevMap[e]
    IN  [powerEntityId        |-> e,
         entityName           |-> EntityNameAt(e),
         powerEntityStateId   |-> st,
         totalTimeInStateMs   |-> stateResidency.totalTimeInStateMs,
         deltaTotalTime       |-> IF have
                                  THEN stateResidency.totalTimeInStateMs
                                         - prevMap[e][st].totalTimeInStateMs
                                  ELSE 0,
         totalStateEntryCount |-> stateResidency.totalStateEntryCount,
         deltaTotalCount      |-> IF have
                                  THEN stateResidency.totalStateEntryCount
                                         - prevMap[e][st].totalStateEntryCount
                                  ELSE 0,
         lastEntryTimestampMs |-> stateResidency.lastEntryTimestampMs,
         deltaTimestamp       |-> IF have
                                  THEN stateResidency.lastEntryTimestampMs
                                         - prevMap[e][st].lastEntryTimestampMs
                                  ELSE 0]

\* One line of the plain table of dumpStateResidency.
StateRow(result, stateResidency) ==
    [powerEntityId        |-> result.powerEntityId,
     entityName           |-> EntityNameAt(result.powerEntityId),
     powerEntityStateId   |-> stateResidency.powerEntityStateId,
     totalTimeInStateMs   |-> stateResidency.totalTimeInStateMs,
     totalStateEntryCount |-> stateResidency.totalStateEntryCount,
     lastEntryTimestampMs |-> stateResidency.lastEntryTimestampMs]

\* The data lines of dumpStateResidency, in output order.
StateRows(results, prev, delta) ==
    LET prevMap == PrevResultsMap(prev)
    IN  Concat([k \in 1..Len(results) |->
            [j \in 1..Len(results[k].stateResidencyData) |->
                IF delta
                THEN StateRowDelta(results[k], results[k].stateResidencyData[j], prevMap)
                ELSE StateRow(results[k], results[k].stateResidencyData[j])]])

\* static_cast<float>(x): x rounded to 24 significant bits, ties to even.
RECURSIVE FloatUlp(_, _)
FloatUlp(m, q) == IF m < 16777216 * q THEN q ELSE FloatUlp(m, 2 * q)

ToFloat(x) ==
    LET m  == IF x < 0 THEN 0 - x ELSE x
        q  == FloatUlp(m, 1)
        lo == (m \div q) * q
        r  == m - lo
        up == IF 2 * r > q \/ (2 * r = q /\ (m \div q) % 2 = 1) THEN lo + q ELSE lo
    IN  IF x < 0 THEN 0 - up ELSE up

\* "%14.2f" of static_cast<float>(uWs) / 1000.0: milliwatt-seconds rounded to
\* two decimals, kept in hundredths of a mWs (a remainder of exactly 5 uWs,
\* which the binary value decides in the program, is rounded away from zero).
HundredthsMWs(uWs) ==
    LET f == ToFloat(uWs)
    IN  IF f >= 0 THEN (f + 5) \div 10 ELSE 0 - ((5 - f) \div 10)

\* prevEnergyDataMap: rail index -> energyUWs; emplace keeps the first.
PrevEnergyDataMap(prev) ==
    [r \in {prev[i].railIndex : i \in 1..Len(prev)} |->
        prev[FirstIndex(prev, LAMBDA d : d.railIndex = r)].energyUWs]

\* railNames.at(railIndex): (subsysName, railName) from getRailInfo.
RailNames(infos, railIndex) ==
    LET info == infos[FirstIndex(infos, LAMBDA i : i.railIndex = railIndex)]
    IN  <<info.subsysName, info.railName>>

\* The data lines of dumpRailEnergy, in output order.
EnergyRows(energyData, infos, prev, delta) ==
    LET prevMap == PrevEnergyDataMap(prev)
    IN  [k \in 1..Len(energyData) |->
            LET data == energyData[k]
                deltaEnergy == IF data.railIndex \in DOMAIN prevMap
                               THEN data.energyUWs - prevMap[data.railIndex]
                               ELSE 0
                base == [railIndex  |-> data.railIndex,
                         subsysName |-> RailNames(infos, data.railIndex)[1],
                         railName   |-> RailNames(infos, data.railIndex)[2],
                         energy     |-> HundredthsMWs(data.energyUWs)]
            IN  IF delta
                THEN [railIndex |-> base.railIndex, subsysName |-> base.subsysName,
                      railName |-> base.railName, energy |-> base.energy,
                      delta |-> HundredthsMWs(deltaEnergy)]
                ELSE base]

\* What the providers do during one dump: the fill pattern of every state
\* residency provider and the behaviour of the rail provider.
DumpScenarios ==
    {[beh |-> [p \in OwningProviders |-> sc[1]], rb |-> sc[2]] :
        sc \in {<<"all", "ok">>, <<"none", "error">>,
                <<"state0", "partial">>, <<"first", "ok">>}}

\* Argument lists handed to dump.
DumpArgs ==
    {<<>>, <<"delta">>, <<"-a">>, <<"delta", "delta">>, <<"delta", "-a">>, <<"-a", "delta">>}

\* PowerStats::dump: dumpStateResidency, then dumpRailEnergy; the boot clock
\* is read once in each and may advance by `skew` ticks in between.
dump(args, sc, skew) ==
    /\ Idle
    /\ now + skew <= MaxTime
    /\ LET delta      == IsDelta(args)
           srCur      == now
           reCur      == now + skew
           results    == ResidencyData(<<>>, sc.beh, srCur).out.ret
           railInfos  == RailInfo(sc.rb).ret
           energyData == EnergyData(<<>>, sc.rb, reCur).ret
           srPrev     == PrevTime(sr_init, sr_prevTime, srCur)
           rePrev     == PrevTime(re_init, re_prevTime, reCur)
       IN  /\ reply' = [op |-> "dump", args |-> args, delta |-> delta,
                        results |-> results, energyData |-> energyData,
                        srCur |-> srCur, reCur |-> reCur,
                        srElapsed |-> IF delta THEN ElapsedMs(srCur, srPrev) ELSE 0,
                        reElapsed |-> IF delta THEN ElapsedMs(reCur, rePrev) ELSE 0,
                        srRows |-> StateRows(results, prevResults, delta),
                        reRows |-> EnergyRows(energyData, railInfos, prevEnergyData, delta),
                        status |-> STATUS_OK]
           /\ IF delta
              THEN /\ sr_init' = TRUE
                   /\ prevResults' = NextSnapshot(prevResults, results)
                   /\ sr_prevTime' = srCur
                   /\ re_init' = TRUE
                   /\ prevEnergyData' = NextSnapshot(prevEnergyData, energyData)
                   /\ re_prevTime' = reCur
              ELSE UNCHANGED statics
    /\ now' = now + skew
    /\ deltaDumps' = IF args = <<"delta">> /\ deltaDumps < 2 THEN deltaDumps + 1 ELSE deltaDumps
    /\ UNCHANGED <<registry, mRailEnergyDataProvider>>

\* Providers registered while dumps are explored.
DumpStateProviders == {"p1"}
DumpRailProviders  == {"r1"}

NextDump ==
    \/ \E p \in DumpStateProviders : addStateResidencyDataProvider(p)
    \/ \E rp \in DumpRailProviders : setRailDataProvider(rp)
    \/ Idle /\ \E args \in DumpArgs, sc \in DumpScenarios, skew \in 0..1 : dump(args, sc, skew)
    \/ Tick
    \/ Return

SpecDump == Init /\ [][NextDump]_vars

\* ------------------------------------------------ formulas about the dumps
IsDumpReply == reply.op = "dump"

\* The data stored for (entity id, state id) in a list of results.
SnapshotData(snapshot, e, st) ==
    {snapshot[i].stateResidencyData[j] :
        <<i, j>> \in {ij \in (1..Len(snapshot)) \X (1..Cardinality(SeqToSet(EntityStates))) :
                        /\ ij[2] <= Len(snapshot[ij[1]].stateResidencyData)
                        /\ snapshot[ij[1]].powerEntityId = e
                        /\ snapshot[ij[1]].stateResidencyData[ij[2]].powerEntityStateId = st}}

\* The energy stored for a rail in a list of EnergyData.
SnapshotEnergy(snapshot, rail) ==
    {snapshot[i].energyUWs : i \in {k \in 1..Len(snapshot) : snapshot[k].railIndex = rail}}

\* C6: the first dump of the process asked with ["delta"], whatever dumps
\* without it came before, shows an elapsed time of zero in both reports and
\* a zero delta for every rail and for the total time, entry count and last
\* entry timestamp of every (entity, state).
C6_FirstDeltaIsZero ==
    (IsDumpReply /\ reply.args = <<"delta">> /\ deltaDumps = 1) =>
        /\ reply.delta
        /\ reply.srElapsed = 0
        /\ reply.reElapsed = 0
        /\ \A k \in 1..Len(reply.srRows) :
              /\ reply.srRows[k].deltaTotalTime = 0
              /\ reply.srRows[k].deltaTotalCount = 0
              /\ reply.srRows[k].deltaTimestamp = 0
        /\ \A k \in 1..Len(reply.reRows) : reply.reRows[k].delta = 0

C6_Witness ==
    /\ IsDumpReply /\ reply.args = <<"delta">> /\ deltaDumps = 1
    /\ reply.srCur >= TicksPerMs
    /\ reply.reCur > reply.srCur
    /\ Len(reply.srRows) >= 4
    /\ Len(reply.reRows) >= 2
    /\ \E k \in 1..Len(reply.srRows) : reply.srRows[k].lastEntryTimestampMs > 0

\* A step in which dump runs with the argument list ["delta"].
DeltaDumpStep == Idle /\ reply'.op = "dump" /\ reply'.args = <<"delta">>

\* C7: in every delta-mode dump the delta shown for a key (rail index, or
\* entity id and state id) is the current value minus the value the key has
\* in the stored snapshot, and 0 when the snapshot has no such key; the dump
\* then stores the current readings and the current time as the snapshot, so
\* the snapshot is always the one of the latest delta-mode dump.
C7_DeltaAgainstLastSnapshot ==
    [][DeltaDumpStep =>
        /\ reply'.delta
        /\ Len(reply'.srRows) =
              Len(Concat([k \in 1..Len(reply'.results) |->
                             reply'.results[k].stateResidencyData]))
        /\ \A k \in 1..Len(reply'.srRows) :
              LET row == reply'.srRows[k]
                  cur == SnapshotData(reply'.results, row.powerEntityId,
                                      row.powerEntityStateId)
                  old == SnapshotData(prevResults, row.powerEntityId,
                                      row.powerEntityStateId)
              IN  /\ \E c \in cur :
                        /\ row.totalTimeInStateMs = c.totalTimeInStateMs
                        /\ row.totalStateEntryCount = c.totalStateEntryCount
                        /\ row.lastEntryTimestampMs = c.lastEntryTimestampMs
                  /\ IF old = {}
                     THEN /\ row.deltaTotalTime = 0
                          /\ row.deltaTotalCount = 0
                          /\ row.deltaTimestamp = 0
                     ELSE \A o \in old :
                          /\ row.deltaTotalTime =
                                row.totalTimeInStateMs - o.totalTimeInStateMs
                          /\ row.deltaTotalCount =
                                row.totalStateEntryCount - o.totalStateEntryCount
                          /\ row.deltaTimestamp =
                                row.lastEntryTimestampMs - o.lastEntryTimestampMs
        /\ Len(reply'.reRows) = Len(reply'.energyData)
        /\ \A k \in 1..Len(reply'.reRows) :
              LET row == reply'.reRows[k]
                  cur == reply'.energyData[k]
                  old == SnapshotEnergy(prevEnergyData, cur.railIndex)
              IN  /\ row.railIndex = cur.railIndex
                  /\ row.energy = HundredthsMWs(cur.energyUWs)
                  /\ IF old = {}
                     THEN row.delta = 0
                     ELSE \A o \in old : row.delta = HundredthsMWs(cur.energyUWs - o)
        /\ prevResults' = reply'.results
        /\ prevEnergyData' = reply'.energyData
        /\ sr_prevTime' = reply'.srCur
        /\ re_prevTime' = reply'.reCur
        /\ sr_init' /\ re_init'
        /\ sr_init => reply'.srElapsed = (reply'.srCur - sr_prevTime) \div TicksPerMs
        /\ re_init => reply'.reElapsed = (reply'.reCur - re_prevTime) \div TicksPerMs
    ]_vars

\* A second or later delta-mode dump in which one key moved since the latest
\* snapshot, another key is new, and a rail moved by 1.00 mWs.
C7_Witness ==
    /\ IsDumpReply /\ reply.args = <<"delta">> /\ deltaDumps = 2
    /\ \E k \in 1..Len(reply.srRows) : reply.srRows[k].deltaTotalTime = 1
    /\ \E k \in 1..Len(reply.srRows) :
          /\ reply.srRows[k].deltaTotalTime = 0
          /\ reply.srRows[k].powerEntityStateId = 1
    /\ \E k \in 1..Len(reply.reRows) : reply.reRows[k].delta = 100
    /\ reply.srElapsed = 0 /\ reply.reElapsed = 1

\* A step in which dump runs with any other argument list.
PlainDumpStep == Idle /\ reply'.op = "dump" /\ reply'.args # <<"delta">>

\* The lines a dump shows when it shows current readings only.
PlainStateRows(results) ==
    Concat([k \in 1..Len(results) |->
        [j \in 1..Len(results[k].stateResidencyData) |->
            [powerEntityId        |-> results[k].powerEntityId,
             entityName           |-> NameOf(results[k].powerEntityId),
             powerEntityStateId   |-> results[k].stateResidencyData[j].powerEntityStateId,
             totalTimeInStateMs   |-> results[k].stateResidencyData[j].totalTimeInStateMs,
             totalStateEntryCount |-> results[k].stateResidencyData[j].totalStateEntryCount,
             lastEntryTimestampMs |-> results[k].stateResidencyData[j].lastEntryTimestampMs]]])

\* C8: a dump whose argument list is not exactly ["delta"] leaves the stored
\* energy snapshot, the stored state residency snapshot and both stored
\* timestamps as they are, and what it shows is made of the current readings
\* alone (no elapsed time, no deltas).
C8_PlainDumpKeepsSnapshot ==
    [][PlainDumpStep =>
        /\ ~reply'.delta
        /\ UNCHANGED statics
        /\ reply'.srElapsed = 0 /\ reply'.reElapsed = 0
        /\ reply'.srRows = PlainStateRows(reply'.results)
        /\ Len(reply'.reRows) = Len(reply'.energyData)
        /\ \A k \in 1..Len(reply'.reRows) :
              /\ DOMAIN reply'.reRows[k] = {"railIndex", "subsysName", "railName", "energy"}
              /\ reply'.reRows[k].railIndex = reply'.energyData[k].railIndex
              /\ reply'.reRows[k].energy = HundredthsMWs(reply'.energyData[k].energyUWs)
    ]_vars

\* A one-token dump other than "delta" after a delta-mode dump, with readings
\* and clock that differ from the stored ones.
C8_Witness ==
    /\ IsDumpReply /\ reply.args = <<"-a">>
    /\ deltaDumps = 1 /\ sr_init /\ re_init
    /\ prevResults # <<>> /\ prevEnergyData # <<>>
    /\ reply.results # <<>> /\ reply.results # prevResults
    /\ reply.energyData # <<>> /\ reply.energyData # prevEnergyData
    /\ reply.srCur > sr_prevTime /\ reply.reCur > re_prevTime

====
